---------------------------- MODULE Spec2Model ----------------------------
(***************************************************************************)
(* A model of banger's admission-control core:                             *)
(*   - the post ledger (app/core/x_client.py) with its local file and its  *)
(*     remote mirror (the post_ledger table written by app/api/routes.py), *)
(*   - the /post and /record request handlers,                             *)
(*   - the usage tracker (app/utils/usage.py) and the /generate handler.   *)
(* Time is in seconds, as time.time() gives it; the clock visits whole      *)
(* seconds only, so two readings of it that are equal are also equal in    *)
(* milliseconds (the record_id of the ledger is method + millisecond).     *)
(* Request handlers are threads that advance one store access at a time,   *)
(* so that concurrent requests interleave where the code reads or writes a *)
(* store.                                                                  *)
(***************************************************************************)
EXTENDS Integers, Sequences, FiniteSets, TLC

(***************************************************************************)
(* Bounds of the model.                                                    *)
(***************************************************************************)
MaxOps == 2

MAX_WRITES == 2

TweetLimit == 280

SecPerDay == 86400

\* strftime("%Y-%m") of a UTC time: months are taken as 30 days long, and
\* time 0 is the first instant of a month.
SecPerMonth == 30 * SecPerDay

\* The instants the clock visits: the start (one second into a month),
\* exactly 48 hours later, one second past 48 hours, and the first instant
\* of the next month.
Times == {1, 2 * SecPerDay + 1, 2 * SecPerDay + 2, SecPerMonth}

None == "None"

(***************************************************************************)
(* Texts.  A text is held run-length encoded: a sequence of runs <<c, n>>, *)
(* n >= 1 copies of the character c, adjacent runs having different        *)
(* characters.  " " is the whitespace character, "A" the upper-case "a".   *)
(***************************************************************************)
RECURSIVE Canon(_)
Canon(s) ==
    IF Len(s) <= 1 THEN s
    ELSE IF s[1][1] = s[2][1]
         THEN Canon(<<(<<s[1][1], s[1][2] + s[2][2]>>)>> \o SubSeq(s, 3, Len(s)))
         ELSE <<s[1]>> \o Canon(Tail(s))

RECURSIVE TLen(_)
\* len(text)
TLen(s) == IF s = <<>> THEN 0 ELSE s[1][2] + TLen(Tail(s))

\* str.strip()
Strip(s) ==
    LET a == IF s # <<>> /\ s[1][1] = " " THEN Tail(s) ELSE s
    IN  IF a # <<>> /\ a[Len(a)][1] = " " THEN SubSeq(a, 1, Len(a) - 1) ELSE a

\* " ".join(text.split())
SplitJoin(s) ==
    LET t == Strip(s)
    IN  [i \in 1..Len(t) |-> IF t[i][1] = " " THEN <<" ", 1>> ELSE t[i]]

\* str.lower()
Lower(s) ==
    Canon([i \in 1..Len(s) |-> IF s[i][1] = "A" THEN <<"a", s[i][2]>> ELSE s[i]])

RECURSIVE Prefix(_, _)
\* s[:n]
Prefix(s, n) ==
    IF s = <<>> \/ n <= 0 THEN <<>>
    ELSE IF s[1][2] >= n THEN <<(<<s[1][1], n>>)>>
    ELSE <<s[1]>> \o Prefix(Tail(s), n - s[1][2])

TxtPlain == <<(<<"a", 1>>)>>

TxtUpper == <<(<<"A", 1>>)>>

TxtSpaced == <<(<<"a", 1>>), (<<" ", 2>>), (<<"a", 1>>)>>

TxtBlank == <<(<<" ", 1>>)>>

TxtLong == <<(<<"a", TweetLimit + 1>>)>>

\* the texts requests carry
Texts == {TxtPlain, TxtUpper, TxtBlank, TxtLong}

Methods == {"api", "manual", "community"}

(***************************************************************************)
(* URLs.  A URL is a record: its shape and the digits after /status/.      *)
(***************************************************************************)
NoUrl == [kind |-> "none", id |-> None]

StatusUrl == [kind |-> "user/status", id |-> "999"]

ProfileUrl == [kind |-> "user/profile", id |-> None]

Urls == {NoUrl, StatusUrl, ProfileUrl}

extract_tweet_id_from_url(url) ==
    IF url.kind \in {"user/status", "i/web/status"} THEN url.id ELSE None

tweet_url(tweet_id) == [kind |-> "i/web/status", id |-> tweet_id]

\* the id the platform assigns to its n-th post
PlatformIds == <<"101", "102", "103", "104", "105", "106", "107", "108">>

(***************************************************************************)
(* The ledger: an insertion-ordered mapping, a sequence of entries with    *)
(* distinct keys.  ts_str says that ts is an ISO string (a row read back   *)
(* from the remote table) and not a number (a record made by               *)
(* record_post_to_ledger).                                                 *)
(***************************************************************************)
month_key(ts) == ts \div SecPerMonth

\* Put as a list would do it: an entry is added whether or not its key is
\* there
Put_append(led, e) == Append(led, e)

\* led[key] = e of a Python dict: an entry with the key is replaced where it
\* stands, a new key goes to the end
RECURSIVE Put(_, _)
Put(led, e) ==
    IF led = <<>> THEN <<e>>
    ELSE IF Head(led).key = e.key THEN <<e>> \o Tail(led)
    ELSE <<Head(led)>> \o Put(Tail(led), e)

RECURSIVE DictFromRows(_)
DictFromRows(rows) ==
    IF rows = <<>> THEN <<>>
    ELSE Put(DictFromRows(SubSeq(rows, 1, Len(rows) - 1)), rows[Len(rows)])

VARIABLES now, localFile, remote, th, ops, posts, taken

ledgerVars == <<now, localFile, remote, th, ops, posts, taken>>

\* The usage tracker and /generate: the user_usage table, the subscriptions
\* table, the generation cache, the /generate requests in flight, the number
\* of requests sent, and two history variables: fresh[u] counts the fresh
\* generations user u completed on the present day, faulty says that a call
\* to the backing store has failed, lastSet[k] is what the latest
\* set_cached_options(k, ...) stored, and when.
VARIABLES usage, subs, cache, gt, gops, fresh, faulty, lastSet

genVars == <<usage, subs, cache, gt, gops, fresh, faulty, lastSet>>

\* One call of generate_human_post, followed provider call by provider call:
\* hp.pc is where the function stands, hp.calls the provider calls it has made
\* (temperature in tenths, and whether the prompt was the rewrite prompt),
\* hp.answers what each of them gave, hp.result what the function returned.
VARIABLE hp

postVars == <<hp>>

vars == <<now, localFile, remote, th, ops, posts, taken,
          usage, subs, cache, gt, gops, fresh, faulty, lastSet, hp>>

\* _load_ledger: the remote rows when the remote store answers with at least
\* one row, the local file otherwise.
load_ledger(reach) ==
    LET supabase_ledger == IF reach THEN DictFromRows(remote) ELSE <<>>
    IN  IF supabase_ledger # <<>> THEN supabase_ledger ELSE localFile

\* remaining_of without the test of the method, as in src/api.py line 38:
\* every record of the month is counted
remaining_of_any_method(led, t) ==
    LET used == Cardinality({i \in 1..Len(led) : led[i].month = month_key(t)})
    IN  IF MAX_WRITES - used > 0 THEN MAX_WRITES - used ELSE 0

\* lines 92-94: MAX_WRITES less the api records of the month, not below 0
remaining_of(led, t) ==
    LET used == Cardinality({i \in 1..Len(led) :
                    led[i].month = month_key(t) /\ led[i].method = "api"})
    IN  IF MAX_WRITES - used > 0 THEN MAX_WRITES - used ELSE 0

remaining_posts_this_month(reach) == remaining_of(load_ledger(reach), now)

DupWindow == 2 * SecPerDay

\* The scan of was_recently_posted and of record_post_to_ledger: the index of
\* the first entry with the same norm_text and ts >= cutoff, 0 when there is
\* none, -1 when the comparison of an ISO-string ts with the float cutoff
\* raises TypeError before a match is found.
RECURSIVE ScanFrom(_, _, _, _)
ScanFrom(led, norm, cutoff, i) ==
    IF i > Len(led) THEN 0
    ELSE IF led[i].norm_text # norm THEN ScanFrom(led, norm, cutoff, i + 1)
    ELSE IF led[i].ts_str THEN -1
    ELSE IF led[i].ts >= cutoff THEN i
    ELSE ScanFrom(led, norm, cutoff, i + 1)

Scan(led, norm, t) == ScanFrom(led, norm, t - DupWindow, 1)

was_recently_posted(led, text, t) ==
    LET r == Scan(led, SplitJoin(text), t)
    IN  IF r = -1 THEN "TypeError" ELSE IF r > 0 THEN "True" ELSE "False"


(***************************************************************************)
(* Request threads.                                                        *)
(***************************************************************************)
Threads == {1, 2}

NormLimit == 500

PlatformErrors == {"403 Forbidden: duplicate content", "429 Too Many Requests"}

XInfoOutcomes == {"connected", "none", "error"}

NoRes == [kind |-> "none", success |-> FALSE, tweet_id |-> None,
          error |-> None, remaining |-> -1]

\* the dict post_to_x returns; remaining -1 until it is computed
Ret(success, tweet_id, error) ==
    [kind |-> "return", success |-> success, tweet_id |-> tweet_id,
     error |-> error, remaining |-> -1]

\* an HTTPException(400) of the route, or an exception that leaves the handler
Http400 == [NoRes EXCEPT !.kind = "http400"]

Raised(e) == [NoRes EXCEPT !.kind = "raised", !.error = e]

Idle == [pc |-> "idle", op |-> "none", text |-> <<>>, method |-> "none",
         url |-> NoUrl, tid |-> None, auth |-> FALSE, led |-> <<>>,
         ins |-> FALSE, res |-> NoRes, q0 |-> 0, open0 |-> FALSE]

\* the record record_post_to_ledger inserts (x_client.py 144-152)
NewRecord(text, method, tweet_id, url, t) ==
    [key |-> <<method, t>>, ts |-> t, ts_str |-> FALSE, month |-> month_key(t),
     norm_text |-> SplitJoin(text), method |-> method, tweet_id |-> tweet_id,
     tweet_url |-> IF url # NoUrl THEN url
                   ELSE IF tweet_id # None THEN tweet_url(tweet_id) ELSE NoUrl]

\* the row _save_post_to_supabase inserts (routes.py 74-96)
RemoteRow(text, method, tweet_id, t) ==
    [key |-> <<method, t>>, ts |-> t, ts_str |-> TRUE, month |-> month_key(t),
     norm_text |-> Prefix(Lower(Strip(text)), NormLimit), method |-> method,
     tweet_id |-> tweet_id,
     tweet_url |-> IF tweet_id # None THEN tweet_url(tweet_id) ELSE NoUrl]

\* a post of an earlier run of the program, made at time 0 through post_to_x
\* and recorded in the local file
TxtPrior == <<(<<"b", 1>>)>>

PriorPost == [text |-> TxtPrior, at |-> 0, tid |-> "100"]

\* The process starts with the ledger file of its earlier runs: empty, or
\* holding the record of the one earlier post.  posts is the history of the
\* posts the platform accepted; taken says that a request has arrived at the
\* present instant.
LedgerInit(earlier) ==
    /\ now = 1
    /\ localFile = IF earlier
                   THEN <<NewRecord(TxtPrior, "api", PriorPost.tid, NoUrl,
                                    PriorPost.at)>>
                   ELSE <<>>
    /\ posts = IF earlier THEN <<PriorPost>> ELSE <<>>
    /\ remote = <<>>
    /\ th = [p \in Threads |-> Idle]
    /\ ops = 0
    /\ taken = FALSE

\* spec 4.3, is_recent_duplicate: some record has the normalized text and a
\* timestamp within the window
IsRecentDuplicate(led, text, t) ==
    \E i \in 1..Len(led) :
        led[i].norm_text = SplitJoin(text) /\ led[i].ts >= t - DupWindow

\* the ledger holds one record for the text, recent and without a tweet_id
HasOpenRecord(led, text, t) ==
    /\ Cardinality({i \in 1..Len(led) : led[i].norm_text = SplitJoin(text)}) = 1
    /\ \E i \in 1..Len(led) :
          /\ led[i].norm_text = SplitJoin(text)
          /\ led[i].ts >= t - DupWindow
          /\ led[i].tweet_id = None

\* A request is taken by a free worker thread (the lowest-numbered one: idle
\* workers are interchangeable).  Requests that do not overlap arrive at
\* different instants.  Two fields remember the request's pre-state:
\* q0 is remaining_posts_this_month() as it was when the request arrived,
\* open0 says that the ledger, read either way, then held an open record for
\* the request's text.
Start(p, r) ==
    /\ th[p].pc = "idle"
    /\ \A q \in Threads : q < p => th[q].pc # "idle"
    /\ (\A q \in Threads : th[q].pc = "idle") => ~taken
    /\ taken' = TRUE
    /\ ops < MaxOps
    /\ ops' = ops + 1
    /\ th' = [th EXCEPT ![p] =
                [r EXCEPT !.q0 = remaining_posts_this_month(TRUE),
                          !.open0 = \A reach \in BOOLEAN :
                                HasOpenRecord(load_ledger(reach), r.text, now)]]
    /\ UNCHANGED <<now, localFile, remote, posts>>

\* The requests the model sends: a URL comes with method manual only, and
\* the over-long text with method api only.
InputShape(raw, method, url) ==
    /\ method # "manual" => url = NoUrl
    /\ raw = TxtLong => method = "api"

\* POST /api/post (routes.py 338-356, 377-381): validation, then post_to_x
\* for method api or record_post_to_ledger for manual and community
PostRequest(p) ==
    \E raw \in Texts, method \in Methods, url \in Urls, auth \in BOOLEAN :
        /\ InputShape(raw, method, url)
        /\ Start(p, IF Strip(raw) = <<>>
                    THEN [Idle EXCEPT !.pc = "done", !.op = "post", !.res = Http400]
                    ELSE [Idle EXCEPT
                            !.pc = IF method = "api" THEN "x_guard" ELSE "rec_load",
                            !.op = "post", !.text = Strip(raw), !.method = method,
                            !.url = url, !.auth = auth,
                            !.tid = extract_tweet_id_from_url(url)])

\* POST /api/record (routes.py 432-446)
RecordRequest(p) ==
    \E raw \in Texts, method \in {"manual", "community"}, url \in Urls,
       auth \in BOOLEAN :
        /\ InputShape(raw, method, url)
        /\ Start(p, IF Strip(raw) = <<>>
                 THEN [Idle EXCEPT !.pc = "done", !.op = "record", !.res = Http400]
                 ELSE [Idle EXCEPT !.pc = "rec_load", !.op = "record",
                                   !.text = Strip(raw), !.method = method,
                                   !.url = url, !.auth = auth,
                                   !.tid = extract_tweet_id_from_url(url)])

\* post_to_x called on its own (x_client.py 161-170)
PublishCall(p) ==
    \E raw \in Texts :
        Start(p, [Idle EXCEPT !.pc = "x_guard", !.op = "publish",
                              !.text = Strip(raw), !.method = "api"])

AfterPostToX(me) == IF me.op = "post" THEN "route_save" ELSE "done"

\* post_to_x, lines 171-189: the account, empty-text, length and duplicate
\* guards, with the one ledger load of was_recently_posted
post_to_x_guards(me, xinfo, reach) ==
    LET dup == was_recently_posted(load_ledger(reach), me.text, now)
        reject(e) == [me EXCEPT !.pc = "x_ret", !.res = Ret(FALSE, None, e)]
    IN  IF xinfo = "none" THEN reject("X account not connected")
        ELSE IF xinfo = "error" THEN reject("Failed to fetch X user info")
        ELSE IF me.text = <<>> THEN reject("empty_text")
        ELSE IF TLen(me.text) > TweetLimit THEN reject("over_280_chars")
        ELSE IF dup = "TypeError"
             THEN [me EXCEPT !.pc = "done", !.res = Raised("TypeError")]
        ELSE IF dup = "True" THEN reject("duplicate_guard_48h")
        ELSE [me EXCEPT !.pc = "x_quota"]

XGuard(p) ==
    /\ th[p].pc = "x_guard"
    /\ \E xinfo \in XInfoOutcomes, reach \in BOOLEAN :
          th' = [th EXCEPT ![p] = post_to_x_guards(th[p], xinfo, reach)]
    /\ UNCHANGED <<now, localFile, remote, ops, posts, taken>>

\* post_to_x, lines 191-192: the quota guard, a second ledger load
post_to_x_quota(me, reach) ==
    IF remaining_posts_this_month(reach) <= 0
    THEN [me EXCEPT !.pc = AfterPostToX(me),
                    !.res = [Ret(FALSE, None, "monthly_quota_reached")
                                EXCEPT !.remaining = 0]]
    ELSE [me EXCEPT !.pc = "x_tweet"]

XQuota(p) ==
    /\ th[p].pc = "x_quota"
    /\ \E reach \in BOOLEAN :
          th' = [th EXCEPT ![p] = post_to_x_quota(th[p], reach)]
    /\ UNCHANGED <<now, localFile, remote, ops, posts, taken>>

\* post_to_x, lines 194-203 and 206-208: client.create_tweet
XTweet(p) ==
    /\ th[p].pc = "x_tweet"
    /\ \/ /\ th' = [th EXCEPT ![p].pc = "rec_load",
                              ![p].tid = PlatformIds[Len(posts) + 1]]
          /\ posts' = Append(posts, [text |-> th[p].text, at |-> now,
                                     tid |-> PlatformIds[Len(posts) + 1]])
       \/ /\ \E e \in PlatformErrors :
                th' = [th EXCEPT ![p].pc = "x_ret", ![p].res = Ret(FALSE, None, e)]
          /\ UNCHANGED posts
    /\ UNCHANGED <<now, localFile, remote, ops, taken>>

\* where a thread goes when record_post_to_ledger returns
AfterRecord(me) ==
    IF me.method = "api"
    THEN [me EXCEPT !.pc = "x_ret", !.res = Ret(TRUE, me.tid, None)]
    ELSE [me EXCEPT !.pc = "route_save"]

\* record_post_to_ledger as it would be if the update in place stamped the
\* record with the time and the month of the update
record_post_to_ledger_restamps(me, reach) ==
    LET led == load_ledger(reach)
        i == Scan(led, SplitJoin(me.text), now)
        url == IF me.url # NoUrl THEN me.url ELSE tweet_url(me.tid)
    IN  IF i = -1
        THEN IF me.method = "api"
             THEN [me EXCEPT !.pc = "x_ret", !.res = Ret(FALSE, None, "TypeError")]
             ELSE [me EXCEPT !.pc = "done", !.res = Raised("TypeError")]
        ELSE IF i > 0
        THEN IF me.tid # None /\ led[i].tweet_id = None
             THEN [me EXCEPT !.pc = "rec_save",
                             !.led = [led EXCEPT ![i].tweet_id = me.tid,
                                                 ![i].tweet_url = url,
                                                 ![i].ts = now,
                                                 ![i].month = month_key(now)]]
             ELSE AfterRecord(me)
        ELSE [me EXCEPT !.pc = "rec_save", !.ins = TRUE,
                        !.led = Put(led, NewRecord(me.text, me.method, me.tid,
                                                   me.url, now))]

\* record_post_to_ledger, lines 125-152: load, scan, then update in place,
\* return, or insert; the changed ledger is held until _save_ledger
record_post_to_ledger(me, reach) ==
    LET led == load_ledger(reach)
        i == Scan(led, SplitJoin(me.text), now)
        url == IF me.url # NoUrl THEN me.url ELSE tweet_url(me.tid)
    IN  IF i = -1
        THEN IF me.method = "api"
             THEN [me EXCEPT !.pc = "x_ret", !.res = Ret(FALSE, None, "TypeError")]
             ELSE [me EXCEPT !.pc = "done", !.res = Raised("TypeError")]
        ELSE IF i > 0
        THEN IF me.tid # None /\ led[i].tweet_id = None
             THEN [me EXCEPT !.pc = "rec_save",
                             !.led = [led EXCEPT ![i].tweet_id = me.tid,
                                                 ![i].tweet_url = url]]
             ELSE AfterRecord(me)
        ELSE [me EXCEPT !.pc = "rec_save", !.ins = TRUE,
                        !.led = Put(led, NewRecord(me.text, me.method, me.tid,
                                                   me.url, now))]

RecLoad(p) ==
    /\ th[p].pc = "rec_load"
    /\ \E reach \in BOOLEAN :
          th' = [th EXCEPT ![p] = record_post_to_ledger(th[p], reach)]
    /\ UNCHANGED <<now, localFile, remote, ops, posts, taken>>

\* _save_ledger: the whole file is rewritten with the ledger the thread holds
save_ledger(me) == me.led

RecSave(p) ==
    /\ th[p].pc = "rec_save"
    /\ localFile' = save_ledger(th[p])
    /\ th' = [th EXCEPT ![p] = [AfterRecord(th[p]) EXCEPT !.led = <<>>,
                                                          !.ins = FALSE]]
    /\ UNCHANGED <<now, remote, ops, posts, taken>>

\* the "remaining" of the dict post_to_x returns: one more ledger load
XRet(p) ==
    /\ th[p].pc = "x_ret"
    /\ \E reach \in BOOLEAN :
          th' = [th EXCEPT ![p].pc = AfterPostToX(th[p]),
                           ![p].res.remaining = remaining_posts_this_month(reach)]
    /\ UNCHANGED <<now, localFile, remote, ops, posts, taken>>

\* _save_post_to_supabase as the routes call it (routes.py 360, 384, 449):
\* nothing without a user id, else an insert that may fail and is then logged
save_post_to_supabase(me, ok) ==
    IF me.auth /\ ok
    THEN Append(remote, RemoteRow(me.text, me.method,
                    IF me.method = "api" THEN me.res.tweet_id ELSE me.tid, now))
    ELSE remote

RouteSave(p) ==
    /\ th[p].pc = "route_save"
    /\ \E ok \in BOOLEAN : remote' = save_post_to_supabase(th[p], ok)
    /\ th' = [th EXCEPT ![p] =
                IF th[p].op = "post" /\ th[p].method # "api"
                THEN [th[p] EXCEPT !.pc = "m_ret"]
                ELSE IF th[p].op = "record"
                THEN [th[p] EXCEPT !.pc = "done",
                                   !.res = [Ret(TRUE, th[p].tid, None)
                                               EXCEPT !.remaining = 0]]
                ELSE [th[p] EXCEPT !.pc = "done"]]
    /\ UNCHANGED <<now, localFile, ops, posts, taken>>

\* the PostResponse of a manual or community /post (routes.py 386-391)
ManualRet(p) ==
    /\ th[p].pc = "m_ret"
    /\ \E reach \in BOOLEAN :
          th' = [th EXCEPT ![p].pc = "done",
                           ![p].res = [Ret(TRUE, None, None) EXCEPT
                                 !.remaining = remaining_posts_this_month(reach)]]
    /\ UNCHANGED <<now, localFile, remote, ops, posts, taken>>

\* the response is sent and the thread is free for the next request
Finish(p) ==
    /\ th[p].pc = "done"
    /\ th' = [th EXCEPT ![p] = Idle]
    /\ UNCHANGED <<now, localFile, remote, ops, posts, taken>>

\* the clock moves on between requests
Tick ==
    /\ \A p \in Threads : th[p].pc = "idle"
    /\ \E t \in Times : t > now /\ now' = t
    /\ taken' = FALSE
    /\ UNCHANGED <<localFile, remote, th, ops, posts>>
    /\ UNCHANGED <<genVars, postVars>>

LedgerStep(p) ==
    \/ PostRequest(p) /\ UNCHANGED <<genVars, postVars>>
    \/ RecordRequest(p) /\ UNCHANGED <<genVars, postVars>>
    \/ PublishCall(p) /\ UNCHANGED <<genVars, postVars>>
    \/ XGuard(p) /\ UNCHANGED <<genVars, postVars>>
    \/ XQuota(p) /\ UNCHANGED <<genVars, postVars>>
    \/ XTweet(p) /\ UNCHANGED <<genVars, postVars>>
    \/ RecLoad(p) /\ UNCHANGED <<genVars, postVars>>
    \/ RecSave(p) /\ UNCHANGED <<genVars, postVars>>
    \/ XRet(p) /\ UNCHANGED <<genVars, postVars>>
    \/ RouteSave(p) /\ UNCHANGED <<genVars, postVars>>
    \/ ManualRet(p) /\ UNCHANGED <<genVars, postVars>>
    \/ Finish(p) /\ UNCHANGED <<genVars, postVars>>

\* one request at a time
NextSeq == LedgerStep(1) \/ Tick

\* requests that overlap: the worker threads interleave at one instant
NextConc == \E p \in Threads : LedgerStep(p)

(***************************************************************************)
(* The usage tracker (app/utils/usage.py) and POST /api/generate           *)
(* (app/api/routes.py 189-335).  generate is a coroutine of the one event  *)
(* loop: what it does between two awaits is one step, and the requests of  *)
(* several clients interleave at the awaits (the fan-out of line 271 and   *)
(* the backfill call of line 287).                                         *)
(***************************************************************************)
FREE_DAILY_LIMIT == 3

GEN_CACHE_TTL_SECONDS == 120

MaxGenOps == 2

\* the date of the model's first day, as int(strftime("%Y%m%d"))
EpochDate == 20240315

Users == {"free_user", "paid_user"}

Contexts == {"ctx1", "ctx2"}

\* What one call of generate_with_gemini gives: an exception, or a text
\* (stripped, never empty).  "ad1" is a text that starts with "the brain"
\* and holds an ad-like phrase: it fails both gates.
ProviderOutcomes == {"exc", "post1", "post2", "ad1"}

is_ad_like(text) == text \in {"ad1", "ad2"}

is_builder_feel(text) == text \notin {"ad1", "brain1"}

\* the temperatures of the gated tries, in tenths
Temperatures == <<5, 4, 3, 2>>

RECURSIVE gated_try(_, _)
gated_try(resp, i) ==
    IF i > Len(Temperatures) THEN resp[Len(Temperatures) + 1]
    ELSE IF resp[i] = "exc" THEN "exc"
    ELSE IF ~is_ad_like(resp[i]) /\ is_builder_feel(resp[i]) THEN resp[i]
    ELSE gated_try(resp, i + 1)

\* generate_human_post, given what the provider answers to its calls in
\* order (the gated tries, then the rewrite): the first answer that passes
\* the gates, else the answer to the rewrite; an exception of any call made
\* leaves the function
generate_human_post(resp) == gated_try(resp, 1)

\* What generate_with_gemini can give inside one followed call of
\* generate_human_post: as ProviderOutcomes, and two more texts that fail one
\* gate each: "ad2" holds an ad-like phrase only, "brain1" starts with "the
\* brain" only.
GeminiOutcomes == ProviderOutcomes \cup {"ad2", "brain1"}

HpIdle == [pc |-> "idle", calls |-> <<>>, answers |-> <<>>, result |-> None]

\* the gate of line 270
passes_gates(post) == ~is_ad_like(post) /\ is_builder_feel(post)

\* human_post_after_try as it would be without the return of line 271: a
\* post that passes the gates is followed by the next call all the same
human_post_after_try_no_return(me, post) ==
    IF post = "exc" THEN [me EXCEPT !.pc = "raised", !.result = "exc"]
    ELSE IF Len(me.calls) < Len(Temperatures) THEN [me EXCEPT !.pc = "try"]
    ELSE [me EXCEPT !.pc = "rewrite"]

\* lines 267-271 after one call of the loop has given post: an exception
\* leaves the function, a post that passes the gates is returned, otherwise
\* the loop goes on with the next temperature, and after the last one the
\* function goes to the rewrite
human_post_after_try(me, post) ==
    IF post = "exc" THEN [me EXCEPT !.pc = "raised", !.result = "exc"]
    ELSE IF passes_gates(post) THEN [me EXCEPT !.pc = "returned", !.result = post]
    ELSE IF Len(me.calls) < Len(Temperatures) THEN [me EXCEPT !.pc = "try"]
    ELSE [me EXCEPT !.pc = "rewrite"]

\* generate_human_post is called
HumanPostStart ==
    /\ hp.pc = "idle"
    /\ hp' = [HpIdle EXCEPT !.pc = "try"]

\* one turn of the loop of lines 267-271: the call of generate_with_gemini
\* with the next temperature, and the gates on what it gave
HumanPostTry ==
    /\ hp.pc = "try"
    /\ \E post \in GeminiOutcomes :
          LET temp == Temperatures[Len(hp.calls) + 1]
              me == [hp EXCEPT !.calls = Append(@, [temp |-> temp,
                                                   rewrite |-> FALSE]),
                               !.answers = Append(@, post)]
          IN  hp' = human_post_after_try(me, post)

\* lines 274-279: the rewrite prompt is sent at temperature 0.2 and what
\* comes back is returned as it is
HumanPostRewrite ==
    /\ hp.pc = "rewrite"
    /\ \E post \in GeminiOutcomes :
          hp' = [hp EXCEPT !.calls = Append(@, [temp |-> 2, rewrite |-> TRUE]),
                           !.answers = Append(@, post),
                           !.pc = IF post = "exc" THEN "raised" ELSE "returned",
                           !.result = post]

\* the caller has the result
HumanPostDone ==
    /\ hp.pc \in {"returned", "raised"}
    /\ hp' = HpIdle

HumanPostStep ==
    \/ HumanPostStart /\ UNCHANGED <<ledgerVars, genVars>>
    \/ HumanPostTry /\ UNCHANGED <<ledgerVars, genVars>>
    \/ HumanPostRewrite /\ UNCHANGED <<ledgerVars, genVars>>
    \/ HumanPostDone /\ UNCHANGED <<ledgerVars, genVars>>

\* what one call of generate_human_post gives: an exception or a post
CallOutcomes ==
    {generate_human_post(resp) :
        resp \in [1..(Len(Temperatures) + 1) -> ProviderOutcomes]}

GThreads == {1, 2}

GenTimes == {1, 1 + GEN_CACHE_TTL_SECONDS, 2 + GEN_CACHE_TTL_SECONDS, SecPerDay}

\* _today_key
today_key(t) == t \div SecPerDay

ROTATION == <<"product_building", "feature_cutting">>

pick_mode_for_today_one_based(t) ==
    ROTATION[((EpochDate + today_key(t) + 1) % Len(ROTATION)) + 1]

\* pick_mode_for_today: ROTATION is indexed from 0 in the source
pick_mode_for_today(t) ==
    ROTATION[((EpochDate + today_key(t)) % Len(ROTATION)) + 1]

\* a row of user_usage; NoUsage is the {} of a missing row or a failed read
NoUsage == [last_generation_date |-> -1, daily_generations |-> 0]

\* retries of _safe_query
SAFE_QUERY_RETRIES == 2

\* what one attempt of a query does: it returns, or it raises an error whose
\* text names ssl, connection or timeout, or it raises another error
AttemptOutcomes == {"ok", "transient", "fatal"}

QueryRuns == [1..SAFE_QUERY_RETRIES -> AttemptOutcomes]

\* _safe_query from the attempt numbered attempt (from 0, as in the source):
\* whether the query returned, and how many attempts were made
RECURSIVE safe_query_from(_, _)
safe_query_from(run, attempt) ==
    IF attempt >= SAFE_QUERY_RETRIES THEN [ok |-> FALSE, attempts |-> attempt]
    ELSE IF run[attempt + 1] = "ok" THEN [ok |-> TRUE, attempts |-> attempt + 1]
    ELSE IF run[attempt + 1] = "transient" /\ attempt < SAFE_QUERY_RETRIES - 1
         THEN safe_query_from(run, attempt + 1)
    ELSE [ok |-> FALSE, attempts |-> attempt + 1]

safe_query(run) == safe_query_from(run, 0)

\* the ways a query through _safe_query can end: with its result (TRUE) or
\* with the default (FALSE)
QueryResults == {safe_query(run).ok : run \in QueryRuns}

get_user_usage_stored(u, ok) == usage[u]

\* get_user_usage and get_user_subscription: the row, or the default {} when
\* _safe_query gives up
get_user_usage(u, ok) == IF ok THEN usage[u] ELSE NoUsage

get_user_subscription(u, ok) == IF ok THEN subs[u] ELSE "none"

is_user_paid(sub) == sub = "active"

get_daily_generations(row, t) ==
    IF row.last_generation_date # today_key(t) THEN 0 ELSE row.daily_generations

can_generate_offbyone(sub, row, t) ==
    LET remaining == FREE_DAILY_LIMIT - get_daily_generations(row, t)
    IN  IF is_user_paid(sub) THEN <<TRUE, -1, "unlimited">>
        ELSE IF remaining >= 0 THEN <<TRUE, remaining, "free_tier">>
        ELSE <<FALSE, 0, "limit_reached">>

\* can_generate, on what the two reads returned
can_generate(sub, row, t) ==
    LET remaining == FREE_DAILY_LIMIT - get_daily_generations(row, t)
    IN  IF is_user_paid(sub) THEN <<TRUE, -1, "unlimited">>
        ELSE IF remaining > 0 THEN <<TRUE, remaining, "free_tier">>
        ELSE <<FALSE, 0, "limit_reached">>

increment_usage_no_reset(row, t) ==
    [last_generation_date |-> today_key(t),
     daily_generations |-> row.daily_generations + 1]

\* increment_usage: the row it upserts, from the row it read
increment_usage(row, t) ==
    [last_generation_date |-> today_key(t),
     daily_generations |-> IF row.last_generation_date # today_key(t) THEN 1
                           ELSE row.daily_generations + 1]

NoEntry == [ts |-> -1, options |-> <<>>]

get_cached_options_early(key, t) ==
    IF cache[key] = NoEntry THEN <<>>
    ELSE IF t - cache[key].ts >= GEN_CACHE_TTL_SECONDS THEN <<>>
    ELSE cache[key].options

\* get_cached_options: the options, <<>> for None (a missing or expired entry)
get_cached_options(key, t) ==
    IF cache[key] = NoEntry THEN <<>>
    ELSE IF t - cache[key].ts > GEN_CACHE_TTL_SECONDS THEN <<>>
    ELSE cache[key].options

\* the cache after get_cached_options: an expired entry is popped
cache_after_get(key, t) ==
    IF cache[key] # NoEntry /\ t - cache[key].ts > GEN_CACHE_TTL_SECONDS
    THEN [cache EXCEPT ![key] = NoEntry]
    ELSE cache

\* set_cached_options
set_cached_options(c, key, options, t) ==
    [c EXCEPT ![key] = [ts |-> t, options |-> options]]

\* ROTATION of main.py, the generator of server.py
LEGACY_ROTATION ==
    <<"music_insight", "product_philosophy", "minimalism_in_building">>

\* pick_mode_for_today of main.py
legacy_pick_mode_for_today(t) ==
    LEGACY_ROTATION[((EpochDate + today_key(t)) % Len(LEGACY_ROTATION)) + 1]

\* the keys of the cache of routes.py and of _GEN_CACHE of server.py; the two
\* servers are separate programs and a run is a run of one of them
CacheKeys ==
    {<<m, c>> : m \in {ROTATION[i] : i \in 1..Len(ROTATION)}
                      \cup {LEGACY_ROTATION[i] : i \in 1..Len(LEGACY_ROTATION)},
                c \in Contexts}

\* results holds what the provider calls of the request gave, in call order;
\* hung says that a call the request awaits has stopped responding
GIdle == [pc |-> "idle", user |-> None, key |-> <<>>, options |-> <<>>,
          hit |-> FALSE, status |-> "none", incs |-> 0, cg |-> <<>>,
          rdok |-> FALSE, paid0 |-> FALSE, used0 |-> 0,
          results |-> <<>>, hung |-> FALSE]

\* the process starts with no usage row, or with two generations already
\* counted today for each user
GenInit(earlier) ==
    /\ usage = [u \in Users |-> IF earlier
                                 THEN [last_generation_date |-> today_key(1),
                                       daily_generations |-> 2]
                                 ELSE NoUsage]
    /\ fresh = [u \in Users |-> IF earlier THEN 2 ELSE 0]
    /\ subs = [u \in Users |-> IF u = "paid_user" THEN "active" ELSE "none"]
    /\ cache = [k \in CacheKeys |-> NoEntry]
    /\ gt = [p \in GThreads |-> GIdle]
    /\ gops = 0
    /\ faulty = FALSE
    /\ lastSet = [k \in CacheKeys |-> NoEntry]

\* the loop of lines 273-281 and 288-290: results that are not exceptions,
\* without repeats, in order
RECURSIVE AddOptions_no_seen(_, _)
AddOptions_no_seen(options, results) ==
    IF results = <<>> THEN options
    ELSE AddOptions_no_seen(IF Head(results) # "exc"
                            THEN Append(options, Head(results))
                            ELSE options, Tail(results))

RECURSIVE AddOptions(_, _)
AddOptions(options, results) ==
    IF results = <<>> THEN options
    ELSE LET r == Head(results)
             seen == {options[i] : i \in 1..Len(options)}
         IN  AddOptions(IF r # "exc" /\ r \notin seen THEN Append(options, r)
                        ELSE options, Tail(results))

\* generate_start as it would be with the cache looked up before the
\* paywall check
generate_start_cache_first(user, fieldsOk, ctx, subOk, useOk) ==
    LET cg == can_generate(get_user_subscription(user, subOk),
                           get_user_usage(user, useOk), now)
        key == <<pick_mode_for_today(now), ctx>>
        cached == get_cached_options(key, now)
        me == [GIdle EXCEPT !.user = user]
        checked == [me EXCEPT !.cg = cg, !.rdok = subOk /\ useOk,
                              !.paid0 = subs[user] = "active",
                              !.used0 = IF usage[user].last_generation_date
                                            = today_key(now)
                                        THEN usage[user].daily_generations
                                        ELSE 0]
    IN  IF user = None THEN [me EXCEPT !.pc = "done", !.status = "401"]
        ELSE IF fieldsOk /\ cached # <<>>
             THEN [checked EXCEPT !.pc = "done", !.key = key, !.hit = TRUE,
                                  !.options = cached,
                                  !.status = "500 Unexpected error"]
        ELSE IF ~cg[1] THEN [checked EXCEPT !.pc = "done", !.status = "429"]
        ELSE IF ~fieldsOk THEN [checked EXCEPT !.pc = "done", !.status = "400"]
        ELSE [checked EXCEPT !.pc = "fanout", !.key = key]

\* generate, lines 194-265: authentication, the paywall check, the required
\* fields, the cache lookup.  paid0 and used0 remember what the two tables
\* held when can_generate read them, rdok that both reads succeeded.
generate_start(user, fieldsOk, ctx, subOk, useOk) ==
    LET cg == can_generate(get_user_subscription(user, subOk),
                           get_user_usage(user, useOk), now)
        key == <<pick_mode_for_today(now), ctx>>
        cached == get_cached_options(key, now)
        me == [GIdle EXCEPT !.user = user]
        checked == [me EXCEPT !.cg = cg, !.rdok = subOk /\ useOk,
                              !.paid0 = subs[user] = "active",
                              !.used0 = IF usage[user].last_generation_date
                                            = today_key(now)
                                        THEN usage[user].daily_generations
                                        ELSE 0]
    IN  IF user = None THEN [me EXCEPT !.pc = "done", !.status = "401"]
        ELSE IF ~cg[1] THEN [checked EXCEPT !.pc = "done", !.status = "429"]
        ELSE IF ~fieldsOk THEN [checked EXCEPT !.pc = "done", !.status = "400"]
        ELSE IF cached # <<>>
             THEN [checked EXCEPT !.pc = "done", !.key = key, !.hit = TRUE,
                                  !.options = cached,
                                  !.status = "500 Unexpected error"]
        ELSE [checked EXCEPT !.pc = "fanout", !.key = key]

GenStart(p) ==
    /\ gt[p].pc = "idle"
    /\ \A q \in GThreads : q < p => gt[q].pc # "idle"
    /\ gops < MaxGenOps
    /\ gops' = gops + 1
    /\ \E user \in Users \cup {None}, fieldsOk \in BOOLEAN, ctx \in Contexts,
          subOk \in QueryResults, useOk \in QueryResults :
          /\ user = None => (fieldsOk /\ subOk /\ useOk /\ ctx = "ctx1")
          /\ faulty => (subOk /\ useOk)
          /\ gt' = [gt EXCEPT ![p] = generate_start(user, fieldsOk, ctx, subOk, useOk)]
          /\ cache' = IF user # None /\ gt'[p].status \notin {"429", "400"}
                      THEN cache_after_get(<<pick_mode_for_today(now), ctx>>, now)
                      ELSE cache
          /\ faulty' = (faulty \/ (user # None /\ ~(subOk /\ useOk)))
    /\ UNCHANGED <<usage, subs, fresh, lastSet>>

generate_finish_always_counts(me, options, readOk, writeOk) ==
    [gt |-> [me EXCEPT !.pc = "done", !.options = options, !.incs = me.incs + 1,
                       !.status = IF options = <<>> THEN "500 Generation failed"
                                  ELSE "500 Unexpected error"],
     set |-> options # <<>>,
     cache |-> IF options = <<>> THEN cache
               ELSE set_cached_options(cache, me.key, options, now),
     usage |-> IF writeOk
               THEN [usage EXCEPT ![me.user] =
                        increment_usage(get_user_usage(me.user, readOk), now)]
               ELSE usage,
     fresh |-> IF options = <<>> THEN fresh
               ELSE [fresh EXCEPT ![me.user] = fresh[me.user] + 1]]

\* generate_finish as it would be if the count were incremented from what
\* the request read at its start, not from a read made by increment_usage
generate_finish_stale_read(me, options, readOk, writeOk) ==
    IF options = <<>>
    THEN [gt |-> [me EXCEPT !.pc = "done", !.status = "500 Generation failed"],
          set |-> FALSE,
          cache |-> cache, usage |-> usage, fresh |-> fresh]
    ELSE [gt |-> [me EXCEPT !.pc = "done", !.options = options,
                            !.incs = me.incs + 1,
                            !.status = "500 Unexpected error"],
          set |-> TRUE,
          cache |-> set_cached_options(cache, me.key, options, now),
          usage |-> IF writeOk
                    THEN [usage EXCEPT ![me.user] =
                            increment_usage(
                                [last_generation_date |-> today_key(now),
                                 daily_generations |-> me.used0], now)]
                    ELSE usage,
          fresh |-> [fresh EXCEPT ![me.user] = fresh[me.user] + 1]]

\* generate, lines 294-335, once the options are collected: the 500 of an
\* empty list, or the cache entry, increment_usage, and the response.  The
\* response is built with remaining_posts_this_month(), whose asyncio.run
\* raises RuntimeError inside the running event loop: line 333 turns it into
\* the 500 "Unexpected error".
generate_finish(me, options, readOk, writeOk) ==
    IF options = <<>>
    THEN [gt |-> [me EXCEPT !.pc = "done", !.status = "500 Generation failed"],
          set |-> FALSE,
          cache |-> cache, usage |-> usage, fresh |-> fresh]
    ELSE [gt |-> [me EXCEPT !.pc = "done", !.options = options,
                            !.incs = me.incs + 1,
                            !.status = "500 Unexpected error"],
          set |-> TRUE,
          cache |-> set_cached_options(cache, me.key, options, now),
          usage |-> IF writeOk
                    THEN [usage EXCEPT ![me.user] =
                            increment_usage(get_user_usage(me.user, readOk), now)]
                    ELSE usage,
          fresh |-> [fresh EXCEPT ![me.user] = fresh[me.user] + 1]]

Finalize(p, me, options) ==
    \E readOk \in QueryResults, writeOk \in QueryResults :
        LET r == generate_finish(me, options, readOk, writeOk)
        IN  /\ (options = <<>> \/ faulty) => (readOk /\ writeOk)
            /\ gt' = [gt EXCEPT ![p] = r.gt]
            /\ cache' = r.cache
            /\ lastSet' = IF r.set
                          THEN [lastSet EXCEPT ![me.key] =
                                  [ts |-> now, options |-> r.gt.options]]
                          ELSE lastSet
            /\ usage' = r.usage
            /\ fresh' = r.fresh
            /\ faulty' = (faulty \/ ~(readOk /\ writeOk))

\* the fan-out of line 271 has returned: two calls, each a post or an
\* exception; with fewer than two options the backfill call is awaited
gather_first_exception(r1, r2) ==
    IF r1 = "exc" \/ r2 = "exc" THEN <<"exc", "exc">> ELSE <<r1, r2>>

\* asyncio.gather(..., return_exceptions=True) of line 271: the results of
\* the calls, results and exceptions alike, in call order
gather(r1, r2) == <<r1, r2>>

GenFanout_always_backfill(p) ==
    /\ gt[p].pc = "fanout"
    /\ ~gt[p].hung
    /\ \E r1 \in CallOutcomes, r2 \in CallOutcomes :
          LET results == gather(r1, r2)
              options == AddOptions(<<>>, results)
              me == [gt[p] EXCEPT !.results = <<r1, r2>>]
          IN  IF Len(options) <= 2
              THEN /\ gt' = [gt EXCEPT ![p] = [me EXCEPT !.pc = "backfill",
                                                         !.options = options]]
                   /\ UNCHANGED <<usage, cache, fresh, faulty, lastSet>>
              ELSE Finalize(p, me, options)
    /\ UNCHANGED <<subs, gops>>

GenFanout(p) ==
    /\ gt[p].pc = "fanout"
    /\ ~gt[p].hung
    /\ \E r1 \in CallOutcomes, r2 \in CallOutcomes :
          LET results == gather(r1, r2)
              options == AddOptions(<<>>, results)
              me == [gt[p] EXCEPT !.results = <<r1, r2>>]
          IN  IF Len(options) < 2
              THEN /\ gt' = [gt EXCEPT ![p] = [me EXCEPT !.pc = "backfill",
                                                         !.options = options]]
                   /\ UNCHANGED <<usage, cache, fresh, faulty, lastSet>>
              ELSE Finalize(p, me, options)
    /\ UNCHANGED <<subs, gops>>

\* the one backfill call of lines 283-292 has returned
GenBackfill(p) ==
    /\ gt[p].pc = "backfill"
    /\ ~gt[p].hung
    /\ \E r \in CallOutcomes :
          Finalize(p, [gt[p] EXCEPT !.results = Append(gt[p].results, r)],
                   AddOptions(gt[p].options, <<r>>))
    /\ UNCHANGED <<subs, gops>>

\* A provider call the request awaits stops responding.  generate_with_gemini
\* (generator.py 252-255), to_thread.run_sync (routes.py 268, 287) and the
\* gather of line 271 set no timeout: no step of the request follows.
GenHang(p) ==
    /\ gt[p].pc \in {"fanout", "backfill"}
    /\ ~gt[p].hung
    /\ gt' = [gt EXCEPT ![p].hung = TRUE]
    /\ UNCHANGED <<usage, subs, cache, gops, fresh, faulty, lastSet>>

GenFinish(p) ==
    /\ gt[p].pc = "done"
    /\ gt' = [gt EXCEPT ![p] = GIdle]
    /\ UNCHANGED <<usage, subs, cache, gops, fresh, faulty, lastSet>>

\* the clock moves on between requests; a new day starts the count of the
\* day's fresh generations again
GenTick ==
    /\ \A p \in GThreads : gt[p].pc = "idle"
    /\ \E t \in GenTimes :
          /\ t > now
          /\ now' = t
          /\ fresh' = IF today_key(t) # today_key(now)
                      THEN [u \in Users |-> 0] ELSE fresh
    /\ UNCHANGED <<localFile, remote, th, ops, posts, taken>>
    /\ UNCHANGED <<usage, subs, cache, gt, gops, faulty, lastSet>>
    /\ UNCHANGED postVars

GenStep(p) ==
    \/ GenStart(p) /\ UNCHANGED <<ledgerVars, postVars>>
    \/ GenFanout(p) /\ UNCHANGED <<ledgerVars, postVars>>
    \/ GenBackfill(p) /\ UNCHANGED <<ledgerVars, postVars>>
    \/ GenHang(p) /\ UNCHANGED <<ledgerVars, postVars>>
    \/ GenFinish(p) /\ UNCHANGED <<ledgerVars, postVars>>

\* one request at a time, the clock moving between requests
NextGen == GenStep(1) \/ GenTick

\* requests that overlap: the coroutines interleave at their awaits
NextGenConc == \E p \in GThreads : GenStep(p)

\* a new installation, or one that has served requests earlier today
Init ==
    /\ \E earlier \in BOOLEAN : LedgerInit(earlier) /\ GenInit(earlier)
    /\ hp = HpIdle

SpecSeq == Init /\ [][NextSeq]_vars

SpecConc == Init /\ [][NextConc]_vars

SpecGen == Init /\ [][NextGen]_vars

SpecGenConc == Init /\ [][NextGenConc]_vars

\* calls of generate_human_post, one after the other
SpecHumanPost == Init /\ [][HumanPostStep]_vars

\* ---- server.py, the earlier single-file server -----------------------------
\* Its /api/generate has no authentication and no usage count, keeps its own
\* cache (_get_cached_options and _set_cached_options, lines 83-95, are the
\* code of cache.py) and asks for three options.

\* the target of the loop of line 182
LEGACY_TARGET == 3

\* extra_tries of line 181
LEGACY_EXTRA_TRIES == 2

\* what one call of main.generate_human_post (main.py 214-227) gives: an
\* exception or a text; three texts, for the three options asked for
LegacyOutcomes == {"exc", "post1", "post2", "post3"}

gather3_first_exception(r1, r2, r3) ==
    IF "exc" \in {r1, r2, r3} THEN <<"exc", "exc", "exc">> ELSE <<r1, r2, r3>>

\* asyncio.gather over range(3) with return_exceptions=True, line 169
gather3(r1, r2, r3) == <<r1, r2, r3>>

\* generate of server.py up to the cache lookup, lines 115-164: the required
\* fields, the mode, the lookup; a hit is answered with the cached list and
\* remaining_posts_this_month of api.py, which reads the local file only
legacy_start(fieldsOk, ctx) ==
    LET key == <<legacy_pick_mode_for_today(now), ctx>>
        cached == get_cached_options(key, now)
    IN  IF ~fieldsOk THEN [GIdle EXCEPT !.pc = "done", !.status = "400"]
        ELSE IF cached # <<>>
             THEN [GIdle EXCEPT !.pc = "done", !.key = key, !.hit = TRUE,
                                !.options = cached, !.status = "200"]
        ELSE [GIdle EXCEPT !.pc = "legacy_fanout", !.key = key]

LegacyStart(p) ==
    /\ gt[p].pc = "idle"
    /\ gops < MaxGenOps
    /\ gops' = gops + 1
    /\ \E fieldsOk \in BOOLEAN, ctx \in Contexts :
          /\ gt' = [gt EXCEPT ![p] = legacy_start(fieldsOk, ctx)]
          /\ cache' = IF fieldsOk
                      THEN cache_after_get(<<legacy_pick_mode_for_today(now), ctx>>, now)
                      ELSE cache
    /\ UNCHANGED <<usage, subs, fresh, faulty, lastSet>>

\* lines 192-213: no option is the 500 "Generation failed"; otherwise the
\* options are cached and returned
legacy_finish(me, options) ==
    IF options = <<>>
    THEN [gt |-> [me EXCEPT !.pc = "done", !.status = "500 Generation failed"],
          set |-> FALSE, cache |-> cache]
    ELSE [gt |-> [me EXCEPT !.pc = "done", !.options = options,
                            !.status = "200"],
          set |-> TRUE,
          cache |-> set_cached_options(cache, me.key, options, now)]

\* the loop of lines 182-190 goes on while the target is not met and tries
\* are left; every call so far is in results, three of them from the fan-out
legacy_continue(me, options) ==
    IF Len(options) < LEGACY_TARGET
          /\ LEGACY_EXTRA_TRIES - (Len(me.results) - 3) > 0
    THEN [gt |-> [me EXCEPT !.pc = "legacy_backfill", !.options = options],
          set |-> FALSE, cache |-> cache]
    ELSE legacy_finish(me, options)

LegacyAfterCalls(p, me, options) ==
    LET r == legacy_continue(me, options)
    IN  /\ gt' = [gt EXCEPT ![p] = r.gt]
        /\ cache' = r.cache
        /\ lastSet' = IF r.set
                      THEN [lastSet EXCEPT ![me.key] =
                              [ts |-> now, options |-> r.gt.options]]
                      ELSE lastSet

\* the fan-out of line 169 has returned
LegacyFanout(p) ==
    /\ gt[p].pc = "legacy_fanout"
    /\ \E r1 \in LegacyOutcomes, r2 \in LegacyOutcomes, r3 \in LegacyOutcomes :
          LegacyAfterCalls(p, [gt[p] EXCEPT !.results = <<r1, r2, r3>>],
                           AddOptions(<<>>, gather3(r1, r2, r3)))
    /\ UNCHANGED <<usage, subs, gops, fresh, faulty>>

\* one extra call of lines 184-188 has returned
LegacyBackfill(p) ==
    /\ gt[p].pc = "legacy_backfill"
    /\ \E r \in LegacyOutcomes :
          LegacyAfterCalls(p, [gt[p] EXCEPT !.results = Append(gt[p].results, r)],
                           AddOptions(gt[p].options, <<r>>))
    /\ UNCHANGED <<usage, subs, gops, fresh, faulty>>

LegacyStep(p) ==
    \/ LegacyStart(p) /\ UNCHANGED <<ledgerVars, postVars>>
    \/ LegacyFanout(p) /\ UNCHANGED <<ledgerVars, postVars>>
    \/ LegacyBackfill(p) /\ UNCHANGED <<ledgerVars, postVars>>
    \/ GenFinish(p) /\ UNCHANGED <<ledgerVars, postVars>>

NextLegacy == LegacyStep(1) \/ GenTick

SpecLegacy == Init /\ [][NextLegacy]_vars

\* Either handler, one request at a time.  The two caches have no key in
\* common and server.py does not touch the usage tables, so a request of one
\* handler behaves here as it does in a run of its own server.
NextOrchestrators == GenStep(1) \/ LegacyStep(1)

SpecOrchestrators == Init /\ [][NextOrchestrators]_vars

Next == NextConc \/ Tick \/ NextGenConc \/ GenTick \/ HumanPostStep

Spec == Init /\ [][Next]_vars

(***************************************************************************)
(* The claims about the ledger.                                            *)
(***************************************************************************)
max0(n) == IF n > 0 THEN n ELSE 0

\* C1: for every text, the successful publishes of it are more than 48 hours
\* apart: within 48 hours of a successful publish of T no second publish of
\* T reaches the platform and succeeds.
C1_PublishOncePer48h ==
    \A i, j \in 1..Len(posts) :
        (i < j /\ SplitJoin(posts[i].text) = SplitJoin(posts[j].text))
            => posts[j].at - posts[i].at > DupWindow

\* C2: remaining_posts_this_month() is never negative; when a request is
\* answered, a successful api publish has lowered it by exactly 1 (not below
\* 0) and a manual or community recording has left it as it was.
C2_QuotaAccounting ==
    /\ \A reach \in BOOLEAN : remaining_posts_this_month(reach) >= 0
    /\ \A p \in Threads :
          (th[p].pc = "done" /\ th[p].res.kind = "return") =>
              IF th[p].method = "api"
              THEN th[p].res.success =>
                      remaining_posts_this_month(TRUE) = max0(th[p].q0 - 1)
              ELSE remaining_posts_this_month(TRUE) = th[p].q0

\* C3: in any interleaving, the successful platform posts of one calendar
\* month number at most MAX_WRITES.
C3_MonthlyCap ==
    \A t \in Times \cup {PriorPost.at} :
        Cardinality({i \in 1..Len(posts) :
                        month_key(posts[i].at) = month_key(t)}) <= MAX_WRITES

\* C4: record_post_to_ledger is a single-writer section: never are two calls
\* for the same normalized text both between their load and their save with
\* an insert to write.
C4_RecordSingleWriter ==
    \A p, q \in Threads :
        (p # q /\ th[p].pc = "rec_save" /\ th[q].pc = "rec_save"
            /\ th[p].ins /\ th[q].ins)
            => SplitJoin(th[p].text) # SplitJoin(th[q].text)

\* C5: when a recording of T that brings a tweet id P is answered, and the
\* ledger held an open record for T when it arrived, the ledger (read from
\* either store) holds exactly one record for T and that record has
\* tweet_id P.
C5_LateIdUpdatesInPlace ==
    \A p \in Threads :
        (th[p].pc = "done" /\ th[p].method # "api" /\ th[p].tid # None
            /\ th[p].open0) =>
            \A reach \in BOOLEAN :
                LET led == load_ledger(reach)
                    S == {i \in 1..Len(led) :
                            led[i].norm_text = SplitJoin(th[p].text)}
                IN  /\ Cardinality(S) = 1
                    /\ \A i \in S : led[i].tweet_id = th[p].tid

\* the errors of the account lookup that precedes the guards of post_to_x
AccountErrors == {"X account not connected", "Failed to fetch X user info"}

\* C6: once a publish has been rejected by a guard or has failed at the
\* platform, the rest of its request changes neither store, nor the
\* remaining quota, nor the error it returns.
C6_FailedPublishLeavesLedger ==
    [][\A p \in Threads :
          (th[p].method = "api" /\ th[p].res.kind = "return"
              /\ ~th[p].res.success /\ th[p].res.error \notin AccountErrors
              /\ th'[p] # th[p]) =>
              /\ localFile' = localFile
              /\ remote' = remote
              /\ remaining_posts_this_month(TRUE)' = remaining_posts_this_month(TRUE)
              /\ th'[p].pc # "idle" => th'[p].res.error = th[p].res.error
      ]_ledgerVars

\* C7: post_to_x given an empty text, a text over 280 characters or a recent
\* duplicate returns success = false without going on to the platform, with
\* the reason code of the guard (or of the account guard before it); at zero
\* remaining quota it returns monthly_quota_reached.  It returns: it does
\* not raise.
C7_GuardsReject ==
    [][\A p \in Threads :
          /\ (/\ th[p].pc = "x_guard" /\ th'[p].pc # "x_guard"
              /\ \/ th[p].text = <<>>
                 \/ TLen(th[p].text) > TweetLimit
                 \/ \A reach \in BOOLEAN :
                        IsRecentDuplicate(load_ledger(reach), th[p].text, now))
             => /\ th'[p].pc = "x_ret"
                /\ th'[p].res.kind = "return"
                /\ ~th'[p].res.success
                /\ th'[p].res.error \in AccountErrors \cup
                      {IF th[p].text = <<>> THEN "empty_text"
                       ELSE IF TLen(th[p].text) > TweetLimit THEN "over_280_chars"
                       ELSE "duplicate_guard_48h"}
          /\ (/\ th[p].pc = "x_quota" /\ th'[p].pc # "x_quota"
              /\ \A reach \in BOOLEAN : remaining_posts_this_month(reach) = 0)
             => /\ th'[p].pc # "x_tweet"
                /\ th'[p].res.kind = "return"
                /\ ~th'[p].res.success
                /\ th'[p].res.error = "monthly_quota_reached"
      ]_ledgerVars

\* C8: a /generate request calls increment_usage exactly once if and only if
\* its fresh generation produced at least one option, and only once the
\* options are collected; a cache hit, a failed generation and a rejected
\* request (401, 429, 400) never call it, and the user_usage table changes
\* only in a step in which some request makes that one call.
C8_UsageCountedOncePerFreshSuccess ==
    [][/\ \A p \in GThreads :
            LET me == gt'[p]
            IN  /\ me.incs <= 1
                /\ me.incs = 1 =>
                      (me.pc = "done" /\ ~me.hit /\ me.options # <<>>)
                /\ me.pc = "done" =>
                      (me.incs = 1 <=> (~me.hit /\ me.options # <<>>))
                /\ (me.hit \/ me.status \in {"401", "429", "400",
                                             "500 Generation failed"})
                      => (me.incs = 0 /\ (gt[p].pc # "done" => usage' = usage))
       /\ usage' # usage =>
            \E p \in GThreads :
                /\ gt[p].pc \in {"fanout", "backfill"}
                /\ gt[p].incs = 0
                /\ gt'[p].incs = 1]_vars

\* a fresh generation has produced options after the backfill call, and the
\* user's counter has gone from two to three
C8_Witness ==
    \E p \in GThreads :
        /\ gt[p].pc = "done"
        /\ ~gt[p].hit
        /\ Len(gt[p].options) = 1
        /\ gt[p].incs = 1
        /\ gt[p].used0 = 2
        /\ usage[gt[p].user].daily_generations = 3

\* C9: when both reads succeed, can_generate gives (TRUE, -1, "unlimited") to
\* a paid user whatever the user has used today, (TRUE, FREE_DAILY_LIMIT -
\* used_today, "free_tier") to a free user below the limit, and
\* (FALSE, 0, "limit_reached") to a free user at or above it.
C9_CanGenerateMapping ==
    \A p \in GThreads :
        LET me == gt[p]
        IN  (me.pc # "idle" /\ me.user # None /\ me.rdok) =>
                me.cg = IF me.paid0 THEN <<TRUE, -1, "unlimited">>
                        ELSE IF me.used0 < FREE_DAILY_LIMIT
                             THEN <<TRUE, FREE_DAILY_LIMIT - me.used0, "free_tier">>
                        ELSE <<FALSE, 0, "limit_reached">>

\* a free user who has used exactly FREE_DAILY_LIMIT generations today is
\* refused
C9_Witness ==
    \E p \in GThreads :
        /\ gt[p].pc = "done"
        /\ gt[p].rdok
        /\ ~gt[p].paid0
        /\ gt[p].used0 = FREE_DAILY_LIMIT
        /\ gt[p].cg = <<FALSE, 0, "limit_reached">>
        /\ gt[p].status = "429"

\* C10: while every call to the backing store succeeds, a free user completes
\* at most FREE_DAILY_LIMIT fresh generations on one UTC day, however the
\* user's requests interleave.
C10_FreeDailyCap ==
    ~faulty =>
        \A u \in Users : ~is_user_paid(subs[u]) => fresh[u] <= FREE_DAILY_LIMIT

(***************************************************************************)
(* The claims about the cache, the orchestrator and the mode.              *)
(***************************************************************************)
\* C11: a lookup of a key made no more than GEN_CACHE_TTL_SECONDS after the
\* latest set of that key gives exactly the list that was set, and leaves
\* the entry; a lookup made later, or of a key never set, gives absent and
\* leaves no entry for the key.
C11_CacheTTL ==
    [][\A p \in GThreads :
          (gt[p].pc = "idle" /\ gt'[p].key # <<>>) =>
              LET k == gt'[p].key
                  e == lastSet[k]
              IN  IF e # NoEntry /\ now - e.ts <= GEN_CACHE_TTL_SECONDS
                  THEN /\ gt'[p].hit
                       /\ gt'[p].options = e.options
                       /\ cache'[k] = e
                  ELSE /\ ~gt'[p].hit
                       /\ gt'[p].pc = "fanout"
                       /\ cache'[k] = NoEntry]_vars

\* a lookup exactly GEN_CACHE_TTL_SECONDS after the set has found the list
C11_Witness ==
    \E p \in GThreads :
        /\ gt[p].hit
        /\ lastSet[gt[p].key] # NoEntry
        /\ now - lastSet[gt[p].key].ts = GEN_CACHE_TTL_SECONDS
        /\ gt[p].options = lastSet[gt[p].key].options

\* C12: a request whose key matches a generation completed within the TTL
\* is answered 200 with the list that generation stored, cache_hit = true,
\* and without a provider call; a request that finds no entry goes to the
\* fan-out; a failed generation leaves no cache entry.
C12_CacheHitServesSameOptions ==
    \A p \in GThreads :
        LET me == gt[p]
        IN  /\ (me.pc = "done" /\ me.hit) =>
                  /\ me.status = "200"
                  /\ me.options = lastSet[me.key].options
                  /\ me.results = <<>>
            /\ (me.pc = "done" /\ me.status = "500 Generation failed") =>
                  cache[me.key] = NoEntry
            /\ (me.key # <<>> /\ ~me.hit /\ me.pc # "fanout") =>
                  Len(me.results) >= 2

\* C14: a fresh generation fails if and only if none of its provider calls
\* gave a result: with at least one result the request is answered 200 with
\* a non-empty list, with none it is answered "Generation failed".
C14_FailsOnlyWhenNoOption ==
    \A p \in GThreads :
        LET me == gt[p]
        IN  (me.pc = "done" /\ me.key # <<>> /\ ~me.hit) =>
                IF \E i \in 1..Len(me.results) : me.results[i] # "exc"
                THEN me.status = "200" /\ me.options # <<>>
                ELSE me.status = "500 Generation failed"

\* the results that are not exceptions and were not seen earlier, in order
FirstSeen(results) ==
    LET keep(i) == /\ results[i] # "exc"
                   /\ \A j \in 1..(i - 1) : results[j] # results[i]
        F[i \in 0..Len(results)] ==
            IF i = 0 THEN <<>>
            ELSE IF keep(i) THEN Append(F[i - 1], results[i]) ELSE F[i - 1]
    IN  F[Len(results)]

\* C15: the list a fresh generation collects (and caches) holds no text
\* twice and no empty text, has at most 2 elements (the target of
\* routes.py), and is the results of the calls in first-seen order, fan-out
\* results in call order before the backfill result.
C15_OptionsDistinctOrdered ==
    /\ \A p \in GThreads :
          LET me == gt[p]
          IN  (me.pc = "done" /\ me.key # <<>> /\ ~me.hit) =>
                  /\ me.options = FirstSeen(me.results)
                  /\ Len(me.options) <= 2
                  /\ \A i, j \in 1..Len(me.options) :
                        i # j => me.options[i] # me.options[j]
                  /\ \A i \in 1..Len(me.options) : me.options[i] # ""
    /\ \A k \in CacheKeys :
          cache[k] # NoEntry =>
              /\ Len(cache[k].options) \in 1..2
              /\ \A i, j \in 1..Len(cache[k].options) :
                    i # j => cache[k].options[i] # cache[k].options[j]

\* the fan-out gave the same text twice and the backfill a new one
C15_Witness ==
    \E p \in GThreads :
        /\ gt[p].pc = "done"
        /\ gt[p].results = <<"post1", "post1", "post2">>
        /\ gt[p].options = <<"post1", "post2">>
        /\ cache[gt[p].key].options = <<"post1", "post2">>

\* C16: every text in a collected or cached list passes the gates: it is not
\* ad-like and it has the builder feel.
C16_OptionsPassGates ==
    /\ \A p \in GThreads :
          \A i \in 1..Len(gt[p].options) :
              ~is_ad_like(gt[p].options[i]) /\ is_builder_feel(gt[p].options[i])
    /\ \A k \in CacheKeys :
          \A i \in 1..Len(cache[k].options) :
              ~is_ad_like(cache[k].options[i])
                  /\ is_builder_feel(cache[k].options[i])

\* C17: a request that awaits a provider call that has stopped responding
\* can still take a step: the call is cut off and counted as failed.
C17_HungCallIsCutOff ==
    \A p \in GThreads :
        gt[p].hung => ENABLED (GenFanout(p) \/ GenBackfill(p))

\* C18: when the fan-out returns, every call has completed and every call
\* that succeeded has its result in the options, whatever the other call did.
C18_FanoutSiblingsIndependent ==
    \A p \in GThreads :
        (gt[p].key # <<>> /\ ~gt[p].hit /\ gt[p].pc \in {"backfill", "done"}) =>
            /\ Len(gt[p].results) >= 2
            /\ \A i \in 1..2 :
                  gt[p].results[i] # "exc" =>
                      \E j \in 1..Len(gt[p].options) :
                          gt[p].options[j] = gt[p].results[i]

\* the first call has failed and the second call's result is kept
C18_Witness ==
    \E p \in GThreads :
        /\ gt[p].pc = "backfill"
        /\ gt[p].results = <<"exc", "post1">>
        /\ gt[p].options = <<"post1">>

\* the date of the second t falls in, as the integer YYYYMMDD
DateInt(t) == EpochDate + (t \div SecPerDay)

\* C19: the mode of a request is decided by the date alone: it is the first
\* element of ROTATION on a date whose YYYYMMDD is even and the second on an
\* odd one (ROTATION has two elements), so requests on the same date have the
\* same mode and the mode is always a member of ROTATION.
C19_ModeIsFunctionOfDate ==
    \A p \in GThreads :
        gt[p].key # <<>> =>
            /\ gt[p].key[1] = IF DateInt(now) % 2 = 0
                              THEN "product_building" ELSE "feature_cutting"
            /\ \E i \in 1..Len(ROTATION) : gt[p].key[1] = ROTATION[i]

\* a request on the second day, whose mode is not the first day's
C19_Witness ==
    \E p \in GThreads :
        /\ gt[p].key # <<>>
        /\ now >= SecPerDay
        /\ gt[p].key[1] # pick_mode_for_today(1)

\* C20: whenever the remote store can be read, the ledger that is loaded is
\* the content of the remote store, also when the remote store is empty.
C20_ReachableRemoteIsTheLedger ==
    load_ledger(TRUE) = DictFromRows(remote)

\* the scenario: of the three calls of the fan-out one has failed and two gave
\* different texts, and the first extra call gave a further text
FanoutOfThreeWithOneFailure(results) ==
    /\ Len(results) = 4
    /\ Cardinality({i \in 1..3 : results[i] = "exc"}) = 1
    /\ Cardinality({results[i] : i \in 1..4}) = 4

C21_StorageFailureNotFatal ==
    (\A i \in 1..Len(remote) : remote[i].method # "api") =>
        /\ load_ledger(FALSE) = localFile
        /\ \A raw \in Texts :
              was_recently_posted(load_ledger(FALSE), Strip(raw), now)
                  # "TypeError"

\* no two entries of the ledger have the same norm_text and timestamps within
\* the duplicate window of each other
NoTwinRecords(led) ==
    \A i, j \in 1..Len(led) :
        (i # j /\ led[i].norm_text = led[j].norm_text) =>
            \/ led[i].ts - led[j].ts > DupWindow
            \/ led[j].ts - led[i].ts > DupWindow

\* C25: when requests do not overlap, the ledger never holds two records with
\* the same normalized text less than 48 hours apart, whether it is read
\* from the remote store or from the local file.
C25_NoTwinRecordsInWindow ==
    \A reach \in BOOLEAN : NoTwinRecords(load_ledger(reach))

\* the request of thread me has inserted a ledger record: requests that do
\* not overlap arrive at different instants, and the key of a record is its
\* method and the instant of its insertion
InsertedRecord(me) ==
    \E i \in 1..Len(localFile) : localFile[i].key = <<me.method, now>>

\* C26: a manual or community request adds a row to the remote store only
\* when it has inserted a ledger record: a request that found a recent
\* record (updated in place or left alone) adds no row.
C26_OneRemoteRowPerRecord ==
    [][\A p \in Threads :
          (th[p].pc = "route_save" /\ th[p].method # "api"
              /\ Len(remote') > Len(remote)) => InsertedRecord(th[p])]_vars

\* C27: only a request with method api calls the platform; a manual or
\* community /post and every /record leave the list of platform posts and
\* remaining_posts_this_month() as they were when the request arrived.
C27_OnlyApiCallsPlatform ==
    [][/\ posts' # posts => \E p \in Threads : th[p].pc = "x_tweet"
                                                  /\ th[p].method = "api"
       /\ \A p \in Threads :
             (th'[p].pc = "done" /\ th'[p].res.kind = "return"
                 /\ th'[p].method \in {"manual", "community"}) =>
                 remaining_posts_this_month(TRUE)' = th'[p].q0]_vars

\* the local file holds a recent record for the text of the request, and
\* that record has a tweet_id or the request brings none
AlreadyRecorded(me) ==
    \E i \in 1..Len(localFile) :
        /\ localFile[i].norm_text = SplitJoin(me.text)
        /\ ~localFile[i].ts_str
        /\ localFile[i].ts >= now - DupWindow
        /\ (localFile[i].tweet_id # None \/ me.tid = None)

\* C28: a record call for a text that the file an earlier call saved holds
\* within the window, with a tweet_id or with none supplied now, writes
\* nothing: the repeated call leaves the ledger as the first call left it.
C28_RecordIdempotent ==
    [][\A p \in Threads :
          (th[p].pc = "rec_load" /\ th[p].method # "api"
              /\ AlreadyRecorded(th[p])) => th'[p].pc # "rec_save"]_vars

\* C29: after a publish has returned success with tweet id P, the ledger file
\* holds a record with method api and tweet_id P, however the requests
\* interleave.
C29_SuccessfulPublishIsRecorded ==
    \A p \in Threads :
        (th[p].pc = "done" /\ th[p].res.kind = "return" /\ th[p].res.success
            /\ th[p].method = "api") =>
            \E i \in 1..Len(localFile) :
                /\ localFile[i].method = "api"
                /\ localFile[i].tweet_id = th[p].res.tweet_id

\* what can_generate gives a user who is not paid and has used `used` today
FreeTier(used) ==
    IF used < FREE_DAILY_LIMIT
    THEN <<TRUE, FREE_DAILY_LIMIT - used, "free_tier">>
    ELSE <<FALSE, 0, "limit_reached">>

\* what the user_usage table holds for today
UsedToday(u) ==
    IF usage[u].last_generation_date = today_key(now)
    THEN usage[u].daily_generations ELSE 0

\* C22: when the usage read fails the user counts as having used nothing
\* today, when the subscription read fails the user counts as not paid:
\* with a failed usage read can_generate allows the request, with the full
\* daily allowance for a user who is not (or not known to be) paid, and a
\* request is refused only on a count that was read.
C22_ReadsFailOpen ==
    /\ \A u \in Users :
          /\ \A subOk \in BOOLEAN :
                can_generate(get_user_subscription(u, subOk),
                             get_user_usage(u, FALSE), now)
                    = IF subOk /\ subs[u] = "active"
                      THEN <<TRUE, -1, "unlimited">>
                      ELSE <<TRUE, FREE_DAILY_LIMIT, "free_tier">>
          /\ can_generate(get_user_subscription(u, FALSE),
                          get_user_usage(u, TRUE), now) = FreeTier(UsedToday(u))
    /\ \A p \in GThreads :
          (gt[p].status = "429" /\ ~gt[p].rdok) =>
              gt[p].used0 >= FREE_DAILY_LIMIT

\* a free user at the daily limit is let through by a request whose usage
\* read failed
C22_Witness ==
    \E p \in GThreads :
        /\ gt[p].pc = "fanout"
        /\ ~gt[p].rdok
        /\ ~gt[p].paid0
        /\ gt[p].used0 = FREE_DAILY_LIMIT
        /\ gt[p].cg = <<TRUE, FREE_DAILY_LIMIT, "free_tier">>

\* C23: a usage write makes at most SAFE_QUERY_RETRIES attempts, and a fresh
\* generation whose usage write was dropped (its call of increment_usage
\* left the user's row as it was) is still answered 200 with its options.
C23_DroppedWriteStillReturns ==
    /\ \A run \in QueryRuns : safe_query(run).attempts <= SAFE_QUERY_RETRIES
    /\ \A p \in GThreads :
          LET me == gt[p]
          IN  (me.pc = "done" /\ me.incs = 1 /\ me.rdok
                  /\ UsedToday(me.user) = me.used0) =>
                  me.status = "200" /\ me.options # <<>>

\* C24: the count of the day starts again by itself: a usage row of another
\* day reads as 0 used today, a free user with such a row is allowed the
\* full allowance whatever count the row holds, and the first increment of
\* the new day stores the count 1 with today's date.
C24_LazyDailyReset ==
    [][/\ \A u \in Users :
             usage[u].last_generation_date # today_key(now) =>
                 /\ get_daily_generations(get_user_usage(u, TRUE), now) = 0
                 /\ can_generate("none", get_user_usage(u, TRUE), now)
                       = <<TRUE, FREE_DAILY_LIMIT, "free_tier">>
       /\ \A p \in GThreads :
             (gt[p].pc = "idle" /\ gt'[p].pc # "idle" /\ gt'[p].rdok
                 /\ gt'[p].user # None /\ ~gt'[p].paid0
                 /\ usage[gt'[p].user].last_generation_date # today_key(now)) =>
                 gt'[p].status # "429"
       /\ \A p \in GThreads :
             (gt'[p].incs = gt[p].incs + 1 /\ usage' # usage
                 /\ usage[gt[p].user].last_generation_date # today_key(now)) =>
                 usage'[gt[p].user] = [last_generation_date |-> today_key(now),
                                        daily_generations |-> 1]]_vars

\* a free user whose row holds the full count of yesterday is generating
\* today
C24_Witness ==
    \E p \in GThreads :
        /\ gt[p].pc = "fanout"
        /\ gt[p].rdok
        /\ ~gt[p].paid0
        /\ usage[gt[p].user].daily_generations = FREE_DAILY_LIMIT
        /\ usage[gt[p].user].last_generation_date # today_key(now)
        /\ gt[p].cg = <<TRUE, FREE_DAILY_LIMIT, "free_tier">>

\* a request of server.py: its mode is one of main.py
IsLegacy(me) ==
    \E i \in 1..Len(LEGACY_ROTATION) : me.key[1] = LEGACY_ROTATION[i]

\* the calls of the fan-out, the target and the extra tries of the handler
\* that serves the request: 2, 2 and 1 in routes.py (lines 271, 283, 284),
\* 3, 3 and 2 in server.py (lines 169, 181, 182)
FanoutCalls(me) == IF IsLegacy(me) THEN 3 ELSE 2

TargetCount(me) == IF IsLegacy(me) THEN LEGACY_TARGET ELSE 2

ExtraTries(me) == IF IsLegacy(me) THEN LEGACY_EXTRA_TRIES ELSE 1

\* C30: the extra calls are made one at a time, each only while the calls so
\* far have given fewer different texts than the target, and at most the
\* retry budget of them; when the fan-out gives the target number of
\* different texts no extra call is made.
C30_BackfillSerialBounded ==
    [][\A p \in GThreads :
          LET me == gt'[p]
              n == Len(me.results)
          IN  me.key # <<>> =>
                  /\ n <= FanoutCalls(me) + ExtraTries(me)
                  /\ \A k \in (FanoutCalls(me) + 1)..n :
                        Len(FirstSeen(SubSeq(me.results, 1, k - 1)))
                            < TargetCount(me)
                  /\ (gt[p].key = me.key /\ Len(gt[p].results) >= FanoutCalls(me))
                        => n <= Len(gt[p].results) + 1
                  /\ (n = FanoutCalls(me)
                         /\ Len(FirstSeen(me.results)) >= TargetCount(me))
                        => me.pc = "done"]_vars

\* in routes.py the fan-out gave one text twice and the one extra call was
\* made, after a request of server.py that made extra calls and ended with
\* two options
C30_Witness ==
    \E p \in GThreads :
        /\ gt[p].pc = "done"
        /\ gt[p].results = <<"post1", "post1", "post2">>
        /\ ~IsLegacy(gt[p])
        /\ \E k \in CacheKeys :
              /\ lastSet[k].options = <<"post1", "post2">>
              /\ \E i \in 1..Len(LEGACY_ROTATION) : k[1] = LEGACY_ROTATION[i]

(***************************************************************************)
(* The claims about the retries of one candidate, the fields of a record,  *)
(* the quota of the month, the guards of a publish, and the usage count.   *)
(***************************************************************************)
\* the first n answers all came back without an exception and failed a gate
FailedGates(answers, n) ==
    \A j \in 1..n : answers[j] # "exc" /\ ~passes_gates(answers[j])

\* C31: one call of generate_human_post makes at most 4 gated provider calls,
\* at the temperatures 0.5, 0.4, 0.3, 0.2 in this order, each only after all
\* earlier answers failed the gates; it returns the first answer that passes
\* without a further call; after 4 failed answers, and only then, it makes
\* exactly one call with the rewrite prompt; it makes at most 5 calls and,
\* each call returning or raising, it always comes to its end.
C31_GatedTriesThenOneRewrite ==
    LET n == Len(hp.calls)
        ended == hp.pc \in {"returned", "raised"}
    IN  /\ n <= 5
        /\ Len(hp.answers) = n
        /\ \A i \in 1..n :
              /\ i <= 4 => hp.calls[i] = [temp |-> 6 - i, rewrite |-> FALSE]
              /\ i = 5 => hp.calls[i] = [temp |-> 2, rewrite |-> TRUE]
              /\ i > 1 => hp.calls[i].temp <= hp.calls[i - 1].temp
              /\ FailedGates(hp.answers, i - 1)
        /\ (hp.pc = "returned" /\ n <= 4) =>
              hp.result = hp.answers[n] /\ passes_gates(hp.result)
        /\ (ended /\ n >= 4 /\ FailedGates(hp.answers, 4)) => n = 5
        /\ ended => hp.result = hp.answers[n]
        /\ hp.pc \in {"try", "rewrite"} =>
              /\ n < 5
              /\ ENABLED HumanPostStep

\* four answers failed the gates and the answer to the rewrite was returned
C31_Witness ==
    /\ hp.pc = "returned"
    /\ Len(hp.calls) = 5
    /\ hp.calls[5].rewrite
    /\ hp.result = "post1"

\* the two ledgers hold the same records but for tweet_id and tweet_url of
\* the record at i
SameButIdAndUrl(before, after, i) ==
    /\ Len(after) = Len(before)
    /\ \A j \in 1..Len(before) :
          IF j = i
          THEN /\ after[j].key = before[j].key
               /\ after[j].ts = before[j].ts
               /\ after[j].ts_str = before[j].ts_str
               /\ after[j].month = before[j].month
               /\ after[j].norm_text = before[j].norm_text
               /\ after[j].method = before[j].method
          ELSE after[j] = before[j]

\* C32: the save of the update-in-place path of record_post_to_ledger
\* changes tweet_id and tweet_url of the matched record and nothing else:
\* ts, month, norm_text and method of that record and every other record of
\* the ledger file are as before.
C32_UpdateKeepsMonthAndOthers ==
    [][\A p \in Threads :
          (th[p].pc = "rec_save" /\ ~th[p].ins /\ th'[p].pc # "rec_save") =>
              \E i \in 1..Len(localFile) :
                  /\ localFile[i].norm_text = SplitJoin(th[p].text)
                  /\ localFile[i].tweet_id = None
                  /\ localFile'[i].tweet_id = th[p].tid
                  /\ SameButIdAndUrl(localFile, localFile', i)]_vars

\* a record made without a tweet id (the remote row of its request has none)
\* has been given one by a later call, at another instant, and still has
\* its first ts and month
C32_Witness ==
    \E i \in 1..Len(localFile) :
        /\ localFile[i].method = "manual"
        /\ localFile[i].tweet_id = StatusUrl.id
        /\ localFile[i].ts < now
        /\ localFile[i].month = month_key(localFile[i].ts)
        /\ \E p \in Threads : th[p].pc = "done" /\ th[p].tid = StatusUrl.id
        /\ \E r \in 1..Len(remote) :
              /\ remote[r].ts = localFile[i].ts
              /\ remote[r].method = "manual"
              /\ remote[r].tweet_id = None

\* the api records of the ledger that were made in the month of the present
\* instant
ApiRecordsOfMonth(led) ==
    {i \in 1..Len(led) :
        led[i].method = "api" /\ month_key(led[i].ts) = month_key(now)}

\* C33: in every state, and whichever store the ledger is read from,
\* remaining_posts_this_month() is MAX_WRITES less the number of api records
\* of the ledger made in the present month, and 0 when that is negative; api
\* records of earlier months do not count, so a ledger whose api records
\* are all of earlier months gives MAX_WRITES again.
C33_RemainingIsLimitLessApiOfMonth ==
    \A reach \in BOOLEAN :
        LET led == load_ledger(reach)
        IN  /\ remaining_posts_this_month(reach)
                  = max0(MAX_WRITES - Cardinality(ApiRecordsOfMonth(led)))
            /\ (\A i \in 1..Len(led) :
                    led[i].method = "api" => led[i].ts < month_key(now) * SecPerMonth)
                  => remaining_posts_this_month(reach) = MAX_WRITES

\* the month has changed: the ledger holds api records of the month before
\* only, next to a record of another method made this month, and the whole
\* quota remains
C33_Witness ==
    /\ month_key(now) = 1
    /\ \E i \in 1..Len(localFile) :
          localFile[i].method = "api" /\ localFile[i].month = 0
    /\ \E i \in 1..Len(localFile) :
          localFile[i].method # "api" /\ localFile[i].month = 1
    /\ remaining_posts_this_month(FALSE) = MAX_WRITES
    /\ remaining_of(localFile, 0) < MAX_WRITES

\* the entries of the ledger with the record id of an insert of method at
\* the present instant
WithRecordId(led, method) ==
    {i \in 1..Len(led) : led[i].key = <<method, now>>}

\* C34: two inserts with one method in one millisecond have one record id;
\* the save of an insert leaves exactly one record with its id in the file,
\* the record of this insert, whatever record had the id before, and the
\* call does not raise.
C34_SameIdLastWriteWins ==
    [][\A p \in Threads :
          (th[p].pc = "rec_save" /\ th[p].ins /\ th'[p].pc # "rec_save") =>
              /\ Cardinality(WithRecordId(localFile', th[p].method)) = 1
              /\ \A i \in WithRecordId(localFile', th[p].method) :
                    localFile'[i] = NewRecord(th[p].text, th[p].method,
                                              th[p].tid, th[p].url, now)
              /\ th'[p].res.kind # "raised"]_vars

\* two requests with one method and different texts have both inserted at
\* one instant and were answered with success, and the file holds one record
\* with their id, that of the later insert
C34_Witness ==
    \E p, q \in Threads :
        /\ p # q
        /\ th[p].pc = "done" /\ th[q].pc = "done"
        /\ th[p].method = th[q].method
        /\ th[p].method # "api"
        /\ SplitJoin(th[p].text) # SplitJoin(th[q].text)
        /\ th[p].res.kind = "return" /\ th[p].res.success
        /\ th[q].res.kind = "return" /\ th[q].res.success
        /\ Cardinality(WithRecordId(localFile, th[p].method)) = 1
        /\ \A i \in WithRecordId(localFile, th[p].method) :
              localFile[i].norm_text = SplitJoin(th[q].text)
        /\ \A i \in 1..Len(localFile) :
              localFile[i].norm_text # SplitJoin(th[p].text)

\* C35: the duplicate guard answers on the whitespace-collapsed text with
\* its case kept, and on the window: for the ledger read either way,
\* was_recently_posted(T) is True exactly when some record has the
\* norm_text of T and a ts at or after now - 48 h, and False otherwise;
\* texts that differ in runs of spaces only are one text to it, texts that
\* differ in case are two.  (Stated for ledgers whose remote rows are of
\* manual and community records.)
C35_DuplicateIsNormalizedAndWindowed ==
    (\A i \in 1..Len(remote) : remote[i].method # "api") =>
        \A reach \in BOOLEAN :
            LET led == load_ledger(reach)
            IN  /\ \A raw \in Texts \cup {TxtSpaced} :
                      was_recently_posted(led, Strip(raw), now)
                          = IF IsRecentDuplicate(led, Strip(raw), now)
                            THEN "True" ELSE "False"
                /\ SplitJoin(TxtSpaced) # SplitJoin(TxtPlain)
                /\ SplitJoin(TxtUpper) # SplitJoin(TxtPlain)

\* the fields of one record as the claim C36 wants them
WellFormedRecord(rec) ==
    /\ rec.method = "api" => rec.tweet_id # None
    /\ rec.tweet_id # None => rec.tweet_url # NoUrl
    /\ (rec.method # "api" /\ rec.tweet_id # None) => rec.tweet_id = StatusUrl.id

\* C36: in every state, in the ledger read either way, each api record has a
\* tweet_id, each record with a tweet_id has a tweet_url, and a manual or
\* community record has a tweet_id only if a status URL was supplied for it.
C36_RecordsCarryIdAndUrl ==
    \A reach \in BOOLEAN :
        \A i \in 1..Len(load_ledger(reach)) :
            WellFormedRecord(load_ledger(reach)[i])

\* the error of the first of the text guards of post_to_x that fails for the
\* thread, None when none fails; dup says whether the text is a recent
\* duplicate
FirstFailingGuard(me, dup) ==
    IF me.text = <<>> THEN "empty_text"
    ELSE IF TLen(me.text) > TweetLimit THEN "over_280_chars"
    ELSE IF dup THEN "duplicate_guard_48h"
    ELSE None

\* C37: post_to_x checks the account, the empty text, the length, the recent
\* duplicate and the quota in this order and returns the error of the first
\* check that fails: past the account check, a call whose text fails a text
\* guard returns with the error of the first such guard, whatever the quota
\* is, and only a call that fails none of them comes to the quota check;
\* monthly_quota_reached is returned with remaining 0.
C37_GuardOrder ==
    [][\A p \in Threads :
          /\ (th[p].pc = "x_guard" /\ th'[p].pc # "x_guard") =>
                LET me == th[p]
                    dupAll == \A reach \in BOOLEAN :
                                 IsRecentDuplicate(load_ledger(reach), me.text, now)
                    dupNone == \A reach \in BOOLEAN :
                                 ~IsRecentDuplicate(load_ledger(reach), me.text, now)
                IN  \/ /\ th'[p].pc = "x_ret"
                       /\ th'[p].res.error \in AccountErrors
                    \/ /\ FirstFailingGuard(me, dupAll) # None
                       /\ th'[p].pc = "x_ret"
                       /\ th'[p].res.kind = "return"
                       /\ ~th'[p].res.success
                       /\ th'[p].res.error = FirstFailingGuard(me, dupAll)
                    \/ /\ FirstFailingGuard(me, ~dupNone) = None
                       /\ th'[p].pc = "x_quota"
                    \/ /\ ~dupAll /\ ~dupNone
                       /\ FirstFailingGuard(me, FALSE) = None
                       /\ \/ th'[p].pc = "x_quota"
                          \/ /\ th'[p].pc = "x_ret"
                             /\ th'[p].res.error = "duplicate_guard_48h"
          /\ (th[p].pc = "x_quota" /\ th'[p].pc # "x_quota"
                 /\ th'[p].pc # "x_tweet") =>
                /\ th'[p].res.error = "monthly_quota_reached"
                /\ th'[p].res.remaining = 0]_vars

\* C38: within one UTC day the stored daily_generations of a user never goes
\* down: a step that changes the row of a user whose row is of today leaves
\* it of today with a greater count, also when increment_usage could not
\* read the row and went on from the default.
C38_DailyCountNeverDecreases ==
    [][\A u \in Users :
          (usage[u].last_generation_date = today_key(now) /\ usage'[u] # usage[u]) =>
              /\ usage'[u].last_generation_date = today_key(now)
              /\ usage'[u].daily_generations > usage[u].daily_generations]_vars

\* C39: while every call to the backing store succeeds, in every
\* interleaving of the requests the count stored for a user for today is
\* the number of fresh generations the user completed today: the read and
\* the write of increment_usage of one request are not separated by a step
\* of another.
C39_NoLostIncrement ==
    ~faulty => \A u \in Users : UsedToday(u) = fresh[u]

\* two requests of one user ran side by side (each was admitted on the
\* count the other was admitted on), both completed a fresh generation, and
\* the stored count went up by two
C39_Witness ==
    /\ ~faulty
    /\ gt[1].pc = "done" /\ gt[2].pc = "done"
    /\ gt[1].user = gt[2].user
    /\ gt[1].incs = 1 /\ gt[2].incs = 1
    /\ gt[1].used0 = gt[2].used0
    /\ usage[gt[1].user].daily_generations = gt[1].used0 + 2

\* C40: generate checks authentication, then the daily limit, then the
\* required fields, then the cache.  A request without a user is answered
\* 401; a request of a free user whose count, read from the table, is at the
\* limit is answered 429 whatever its fields are and whatever the cache
\* holds for it; 400 is answered only to a user who was let through; and a
\* request answered 401, 429 or 400 ends at once, has made no provider call
\* and has left the cache and the usage table as they were.
C40_AdmissionOrder ==
    [][/\ \A u \in Users, fieldsOk \in BOOLEAN, ctx \in Contexts :
             /\ generate_start(None, fieldsOk, ctx, TRUE, TRUE).status = "401"
             /\ (~is_user_paid(subs[u]) /\ UsedToday(u) >= FREE_DAILY_LIMIT) =>
                   generate_start(u, fieldsOk, ctx, TRUE, TRUE).status = "429"
       /\ \A p \in GThreads :
             (gt[p].pc = "idle" /\ gt'[p].pc # "idle") =>
                 LET me == gt'[p]
                 IN  /\ me.status = "401" <=> me.user = None
                     /\ me.status = "429" <=> (me.user # None /\ ~me.cg[1])
                     /\ me.status = "400" => (me.user # None /\ me.cg[1])
                     /\ me.status \in {"401", "429", "400"} =>
                           /\ me.pc = "done"
                           /\ me.results = <<>>
                           /\ me.options = <<>>
                           /\ ~me.hit
                           /\ me.incs = 0
                           /\ cache' = cache
                           /\ lastSet' = lastSet
                           /\ usage' = usage
                           /\ fresh' = fresh]_vars

\* a free user at the limit has been refused while the cache held a live
\* entry for today's mode
C40_Witness ==
    \E p \in GThreads :
        /\ gt[p].pc = "done"
        /\ gt[p].status = "429"
        /\ gt[p].rdok
        /\ ~gt[p].paid0
        /\ gt[p].used0 = FREE_DAILY_LIMIT
        /\ \E ctx \in Contexts :
              get_cached_options(<<pick_mode_for_today(now), ctx>>, now) # <<>>

=============================================================================
